---- MODULE Spec2Model ----
(***************************************************************************)
(* Control flow of glide-finetune.py: run_glide_finetune (the driver),     *)
(* run_glide_finetune_epoch (the batch loop), train_step and save_model.   *)
(* Tensors are abstracted to their shapes, the loss to the ordinal of the  *)
(* train step that computed it, files to their iteration index.            *)
(***************************************************************************)
EXTENDS Integers, Sequences, FiniteSets

VARIABLES
    cfg,            \* arguments of run_glide_finetune and the shape of the loaded model
    pc,             \* position of the single thread of control
    err,            \* the exception that ended the run ("" while none)
    epoch,          \* epoch of `for epoch in range(num_epochs)`
    loader_len,     \* len(dataloader); 0 until the DataLoader is constructed
    optimizer,      \* "none" until the optimizer is constructed
    loader_pos,     \* next index enumerate(dataloader) hands out
    train_idx,      \* train_idx of run_glide_finetune_epoch (-1: not yet bound)
    current_loss,   \* ordinal of the train step that produced current_loss
    locals,         \* timesteps and split of the latest train_step call
    grads,          \* number of backward passes accumulated in the gradients
    batch_calls,    \* trainer calls made so far in the current loop iteration
    n_train_steps,  \* calls of train_step
    n_backward,     \* calls of trainer.backward
    n_optimize,     \* calls of trainer.optimize
    n_samples,      \* calls of util.sample
    n_logs,         \* calls of wandb_run.log
    batch_samples,  \* preview files written in the current loop iteration
    batch_logs,     \* wandb_run.log calls in the current loop iteration
    log,            \* the dict `log` of the current iteration, as <<key, value>> pairs
    logged,         \* the dict passed to the latest wandb_run.log call
    saves,          \* save_model calls in order: [idx, site]
    previews        \* indices i with a file <outputs_dir>/<i>.png

vars == <<cfg, pc, err, epoch, loader_len, optimizer, loader_pos, train_idx,
          current_loss, locals, grads, batch_calls, n_train_steps, n_backward,
          n_optimize, n_samples, n_logs, batch_samples, batch_logs, log, logged,
          saves, previews>>

----------------------------------------------------------------------------
(* Bounds of the model *)
MaxSmallData == 3
MaxBatchSize == 2
MaxEpochs == 2
MaxLogFreq == 2
MaxBetas == 3
MaxChannels == 2

(* Program constants *)
CheckpointInterval == 1000
LossLogModulus == 10
DefaultLogFrequency == 100

----------------------------------------------------------------------------
(* Pure helpers *)

Min(a, b) == IF a < b THEN a ELSE b

\* len(DataLoader(dataset, batch_size=bs)) with the default drop_last=False
LoaderLen(n, bs) == (n + bs - 1) \div bs

\* x_start.shape[0] of the batch at position idx
BatchLen(n, bs, idx) == Min(bs, n - idx * bs)

\* th.randint(low, high, (n,)): n draws from [low, high)
RandIntInclusive(low, high, n) == [1..n -> low..high]
RandInt(low, high, n) == [1..n -> low..(high - 1)]

\* th.split(t, size, dim=1) on a tensor with `total` channels: the chunk widths
RECURSIVE Split(_, _)
Split(total, size) ==
    IF total <= size THEN <<total>>
    ELSE <<size>> \o Split(total - size, size)

\* {**d, k: v}
DictSet(d, k, v) == {p \in d : p[1] # k} \cup {<<k, v>>}
DictKeys(d) == {p[1] : p \in d}

\* assert len(dataset) > 0
DatasetGuardOff(n) == TRUE
DatasetGuard(n) == n > 0

\* if train_idx % 10:
LogsLoss(idx) == idx % LossLogModulus # 0

\* if train_idx > 0 and train_idx % log_frequency == 0:
ShouldSampleFromZero(idx, freq) == idx % freq = 0
ShouldSample(idx, freq) == idx > 0 /\ idx % freq = 0

\* if train_idx % 1000 == 0 and train_idx > 0:
ShouldCheckpointFromZero(idx) == idx % CheckpointInterval = 0
ShouldCheckpoint(idx) == idx % CheckpointInterval = 0 /\ idx > 0

\* save_model(glide_model, checkpoints_dir, train_idx), tagged with its call site
SaveModel(idx, site) == Append(saves, [idx |-> idx, site |-> site])

NoLocals == [timesteps |-> <<>>, chunks |-> <<>>]

----------------------------------------------------------------------------
(* Run configurations *)

DataLens == (0..MaxSmallData) \cup {CheckpointInterval + 1, CheckpointInterval + 2}
LogFrequencies == (1..MaxLogFreq) \cup {DefaultLogFrequency, CheckpointInterval}

AllConfigs ==
    [dataset_len : DataLens,
     batch_size : 1..MaxBatchSize,
     num_epochs : 1..MaxEpochs,
     log_frequency : LogFrequencies,
     betas_len : 2..MaxBetas,
     in_channels : 1..MaxChannels,
     out_channels : 1..(2 * MaxChannels + 1)]

\* Datasets longer than MaxSmallData are run with one model shape only.
Configs ==
    {c \in AllConfigs :
        c.dataset_len > MaxSmallData =>
            /\ c.betas_len = 2
            /\ c.in_channels = 1
            /\ c.out_channels = 2}

----------------------------------------------------------------------------
Init ==
    /\ cfg \in Configs
    /\ pc = "main"
    /\ err = ""
    /\ epoch = 0
    /\ loader_len = 0
    /\ optimizer = "none"
    /\ loader_pos = 0
    /\ train_idx = -1
    /\ current_loss = 0
    /\ locals = NoLocals
    /\ grads = 0
    /\ batch_calls = <<>>
    /\ n_train_steps = 0
    /\ n_backward = 0
    /\ n_optimize = 0
    /\ n_samples = 0
    /\ n_logs = 0
    /\ batch_samples = {}
    /\ batch_logs = 0
    /\ log = {}
    /\ logged = {}
    /\ saves = <<>>
    /\ previews = {}

\* an uncaught exception: the process ends
Raise(e) == pc' = "crashed" /\ err' = e

\* run_glide_finetune up to the dataset guard
LoadDataset ==
    /\ pc = "main"
    /\ IF DatasetGuard(cfg.dataset_len)
          THEN pc' = "setup" /\ err' = err
          ELSE Raise("Dataset is empty")
    /\ UNCHANGED <<cfg, epoch, loader_len, optimizer, loader_pos, train_idx,
                   current_loss, locals, grads, batch_calls, n_train_steps,
                   n_backward, n_optimize, n_samples, n_logs, batch_samples,
                   batch_logs, log, logged, saves, previews>>

\* DataLoader, optimizer, glide_model.zero_grad()
SetupTraining ==
    /\ pc = "setup"
    /\ loader_len' = LoaderLen(cfg.dataset_len, cfg.batch_size)
    /\ optimizer' = "built"
    /\ grads' = 0
    /\ pc' = "epoch_loop"
    /\ UNCHANGED <<cfg, err, epoch, loader_pos, train_idx, current_loss, locals,
                   batch_calls, n_train_steps, n_backward, n_optimize, n_samples,
                   n_logs, batch_samples, batch_logs, log, logged, saves, previews>>

\* for epoch in range(num_epochs): enter run_glide_finetune_epoch, trainer.zero_grad()
StartEpoch ==
    /\ pc = "epoch_loop"
    /\ epoch < cfg.num_epochs
    /\ loader_pos' = 0
    /\ grads' = 0
    /\ pc' = "batch_loop"
    /\ UNCHANGED <<cfg, err, epoch, loader_len, optimizer, train_idx, current_loss,
                   locals, batch_calls, n_train_steps, n_backward, n_optimize,
                   n_samples, n_logs, batch_samples, batch_logs, log, logged,
                   saves, previews>>

\* range(num_epochs) is exhausted: run_glide_finetune returns
Finish ==
    /\ pc = "epoch_loop"
    /\ epoch = cfg.num_epochs
    /\ pc' = "done"
    /\ UNCHANGED <<cfg, err, epoch, loader_len, optimizer, loader_pos, train_idx,
                   current_loss, locals, grads, batch_calls, n_train_steps,
                   n_backward, n_optimize, n_samples, n_logs, batch_samples,
                   batch_logs, log, logged, saves, previews>>

\* the loop hands out the next batch and train_step runs on it
TrainStep ==
    /\ pc = "batch_loop"
    /\ loader_pos < loader_len
    /\ train_idx' = loader_pos
    /\ loader_pos' = loader_pos + 1
    /\ n_train_steps' = n_train_steps + 1
    /\ batch_calls' = <<>>
    /\ batch_samples' = {}
    /\ batch_logs' = 0
    /\ \E ts \in RandInt(0, cfg.betas_len - 1,
                         BatchLen(cfg.dataset_len, cfg.batch_size, loader_pos)),
          raised \in BOOLEAN :
          LET chunks == Split(cfg.out_channels, cfg.in_channels) IN
          /\ locals' = [timesteps |-> ts, chunks |-> chunks]
          /\ IF raised
                THEN Raise("train_step") /\ current_loss' = current_loss
                ELSE IF Len(chunks) # 2
                        THEN Raise("ValueError") /\ current_loss' = current_loss
                        ELSE /\ pc' = "backward"
                             /\ err' = err
                             /\ current_loss' = n_train_steps + 1
    /\ UNCHANGED <<cfg, epoch, loader_len, optimizer, grads, n_backward, n_optimize,
                   n_samples, n_logs, log, logged, saves, previews>>

\* trainer.backward(current_loss)
Backward ==
    /\ pc = "backward"
    /\ locals' = NoLocals
    /\ \E raised \in BOOLEAN :
          IF raised
             THEN Raise("backward") /\ UNCHANGED <<grads, batch_calls, n_backward>>
             ELSE /\ pc' = "optimize"
                  /\ err' = err
                  /\ grads' = grads + 1
                  /\ batch_calls' = Append(batch_calls, "backward")
                  /\ n_backward' = n_backward + 1
    /\ UNCHANGED <<cfg, epoch, loader_len, optimizer, loader_pos, train_idx,
                   current_loss, n_train_steps, n_optimize, n_samples, n_logs,
                   batch_samples, batch_logs, log, logged, saves, previews>>

\* trainer.optimize(opt=optimizer)
Optimize ==
    /\ pc = "optimize"
    /\ \E raised \in BOOLEAN :
          IF raised
             THEN Raise("optimize") /\ UNCHANGED <<batch_calls, n_optimize>>
             ELSE /\ pc' = "zero_grad"
                  /\ err' = err
                  /\ batch_calls' = Append(batch_calls, "optimize")
                  /\ n_optimize' = n_optimize + 1
    /\ UNCHANGED <<cfg, epoch, loader_len, optimizer, loader_pos, train_idx,
                   current_loss, locals, grads, n_train_steps, n_backward, n_samples,
                   n_logs, batch_samples, batch_logs, log, logged, saves, previews>>

\* trainer.zero_grad()
ZeroGradSkipped ==
    /\ pc = "zero_grad"
    /\ batch_calls' = Append(batch_calls, "zero_grad")
    /\ pc' = "log_loss"
    /\ UNCHANGED <<cfg, err, epoch, loader_len, optimizer, loader_pos, train_idx,
                   current_loss, locals, grads, n_train_steps, n_backward, n_optimize,
                   n_samples, n_logs, batch_samples, batch_logs, log, logged, saves,
                   previews>>

ZeroGrad ==
    /\ pc = "zero_grad"
    /\ grads' = 0
    /\ batch_calls' = Append(batch_calls, "zero_grad")
    /\ pc' = "log_loss"
    /\ UNCHANGED <<cfg, err, epoch, loader_len, optimizer, loader_pos, train_idx,
                   current_loss, locals, n_train_steps, n_backward, n_optimize,
                   n_samples, n_logs, batch_samples, batch_logs, log, logged, saves,
                   previews>>

\* log = {}; if train_idx % 10: log = {**log, "iter": ..., "loss": ...}
LogLoss ==
    /\ pc = "log_loss"
    /\ log' = IF LogsLoss(train_idx)
                 THEN DictSet(DictSet({}, "iter", train_idx), "loss", current_loss)
                 ELSE {}
    /\ pc' = "sample"
    /\ UNCHANGED <<cfg, err, epoch, loader_len, optimizer, loader_pos, train_idx,
                   current_loss, locals, grads, batch_calls, n_train_steps, n_backward,
                   n_optimize, n_samples, n_logs, batch_samples, batch_logs, logged,
                   saves, previews>>

\* the sampling block: util.sample, save <train_idx>.png, add it to log
Sample ==
    /\ pc = "sample"
    /\ IF ShouldSample(train_idx, cfg.log_frequency)
          THEN /\ n_samples' = n_samples + 1
               /\ previews' = previews \cup {train_idx}
               /\ batch_samples' = batch_samples \cup {train_idx}
               /\ log' = DictSet(DictSet(log, "iter", train_idx), "samples", train_idx)
          ELSE UNCHANGED <<n_samples, previews, batch_samples, log>>
    /\ pc' = "checkpoint"
    /\ UNCHANGED <<cfg, err, epoch, loader_len, optimizer, loader_pos, train_idx,
                   current_loss, locals, grads, batch_calls, n_train_steps, n_backward,
                   n_optimize, n_logs, batch_logs, logged, saves>>

\* the checkpoint block inside the loop
Checkpoint ==
    /\ pc = "checkpoint"
    /\ saves' = IF ShouldCheckpoint(train_idx) THEN SaveModel(train_idx, "loop") ELSE saves
    /\ pc' = "wandb_log"
    /\ UNCHANGED <<cfg, err, epoch, loader_len, optimizer, loader_pos, train_idx,
                   current_loss, locals, grads, batch_calls, n_train_steps, n_backward,
                   n_optimize, n_samples, n_logs, batch_samples, batch_logs, log,
                   logged, previews>>

\* wandb_run.log(log)
WandbLog ==
    /\ pc = "wandb_log"
    /\ logged' = log
    /\ n_logs' = n_logs + 1
    /\ batch_logs' = batch_logs + 1
    /\ pc' = "batch_loop"
    /\ UNCHANGED <<cfg, err, epoch, loader_len, optimizer, loader_pos, train_idx,
                   current_loss, locals, grads, batch_calls, n_train_steps, n_backward,
                   n_optimize, n_samples, batch_samples, log, saves, previews>>

\* the loader is exhausted: final save_model, run_glide_finetune_epoch returns
EndEpochAlways ==
    /\ pc \in {"batch_loop", "crashed"}
    /\ pc = "batch_loop" => loader_pos = loader_len
    /\ saves' = SaveModel(train_idx, "final")
    /\ epoch' = epoch + 1
    /\ pc' = IF pc = "crashed" THEN "crashed" ELSE "epoch_loop"
    /\ UNCHANGED <<cfg, err, loader_len, optimizer, loader_pos, train_idx,
                   current_loss, locals, grads, batch_calls, n_train_steps, n_backward,
                   n_optimize, n_samples, n_logs, batch_samples, batch_logs, log,
                   logged, previews>>

EndEpoch ==
    /\ pc = "batch_loop"
    /\ loader_pos = loader_len
    /\ saves' = SaveModel(train_idx, "final")
    /\ epoch' = epoch + 1
    /\ pc' = "epoch_loop"
    /\ UNCHANGED <<cfg, err, loader_len, optimizer, loader_pos, train_idx,
                   current_loss, locals, grads, batch_calls, n_train_steps, n_backward,
                   n_optimize, n_samples, n_logs, batch_samples, batch_logs, log,
                   logged, previews>>

Next ==
    \/ LoadDataset
    \/ SetupTraining
    \/ StartEpoch
    \/ Finish
    \/ TrainStep
    \/ Backward
    \/ Optimize
    \/ ZeroGrad
    \/ LogLoss
    \/ Sample
    \/ Checkpoint
    \/ WandbLog
    \/ EndEpoch

Spec == Init /\ [][Next]_vars

----------------------------------------------------------------------------
(* Properties *)

SaveCount(site, k) ==
    Cardinality({i \in 1..Len(saves) : saves[i].site = site /\ saves[i].idx = k})
SiteCount(site) ==
    Cardinality({i \in 1..Len(saves) : saves[i].site = site})

AfterTrainStep == pc = "backward"
BatchCompleted == pc = "batch_loop" /\ n_train_steps > 0
StepFailed == pc = "crashed" /\ err \in {"train_step", "backward", "optimize"}

\* C1: over a whole run, glide-ft-<k>.pt is written exactly once for every
\* scheduled k = 1000, 2000, ... the run reaches, and exactly one more
\* checkpoint write happens at the end of the run.
C1_OncePerIntervalOnceAtEnd ==
    pc = "done" =>
        /\ \A k \in 1..(loader_len - 1) :
              k % CheckpointInterval = 0 => SaveCount("loop", k) = 1
        /\ SiteCount("loop") = (loader_len - 1) \div CheckpointInterval
        /\ SiteCount("final") = 1

\* C2: with a 2-example dataset, batch size 1, log_frequency 1000 and 1 epoch
\* the run makes exactly 2 training steps, never samples, writes no checkpoint
\* inside the loop and exactly one checkpoint in total, the final one.
Scenario ==
    /\ cfg.dataset_len = 2
    /\ cfg.batch_size = 1
    /\ cfg.log_frequency = 1000
    /\ cfg.num_epochs = 1

\* C2: the outcome of the two-example run described above.
C2_TwoExampleRun ==
    Scenario =>
        /\ n_samples = 0
        /\ previews = {}
        /\ SiteCount("loop") = 0
        /\ n_train_steps <= 2
        /\ pc = "done" =>
              /\ n_train_steps = 2
              /\ n_backward = 2
              /\ n_optimize = 2
              /\ saves = <<[idx |-> 1, site |-> "final"]>>

C2_Witness == Scenario /\ pc = "done"

\* C3: every batch gets exactly one backward and one optimize call, the
\* gradients are zero before the backward pass, hold exactly one batch at the
\* optimizer step, and are zeroed again right after it.
C3_OneStepPerBatch ==
    /\ pc = "backward" => grads = 0 /\ batch_calls = <<>>
    /\ pc = "optimize" => grads = 1 /\ batch_calls = <<"backward">>
    /\ pc = "zero_grad" => grads = 1 /\ batch_calls = <<"backward", "optimize">>
    /\ pc \in {"log_loss", "sample", "checkpoint", "wandb_log"} =>
          /\ grads = 0
          /\ batch_calls = <<"backward", "optimize", "zero_grad">>
    /\ pc = "batch_loop" =>
          /\ grads = 0
          /\ n_backward = n_train_steps
          /\ n_optimize = n_train_steps
          /\ n_train_steps = epoch * loader_len + loader_pos
    /\ pc \in {"epoch_loop", "done"} =>
          /\ n_backward = n_train_steps
          /\ n_optimize = n_train_steps
          /\ n_train_steps = epoch * loader_len

C3_Witness ==
    /\ pc = "zero_grad"
    /\ epoch = 1
    /\ train_idx = 1
    /\ n_optimize = loader_len + 2

\* C4: the iteration counter train_idx strictly increases from one batch to
\* the next over the whole run; it is never reset between epochs.
C4_CounterIncreases ==
    [][n_train_steps' # n_train_steps => train_idx' > train_idx]_vars

\* C5: every batch ends with exactly one wandb_run.log call whose record holds
\* the scalar loss of that iteration.
C5_LossLoggedEachIteration ==
    BatchCompleted =>
        /\ batch_logs = 1
        /\ n_logs = n_train_steps
        /\ <<"loss", current_loss>> \in logged

\* C6: the sampler runs at iteration i exactly when i is a positive multiple
\* of log_frequency; then <i>.png is written before the log call and the
\* logged record holds the sample; otherwise nothing is sampled or written.
SampleDue == train_idx > 0 /\ train_idx % cfg.log_frequency = 0

\* C6: sampling, the preview file and the logged sample go with SampleDue.
C6_SampleAtMultiples ==
    /\ \A i \in previews : i > 0 /\ i % cfg.log_frequency = 0
    /\ pc \in {"backward", "optimize", "zero_grad", "log_loss", "sample"} =>
          batch_samples = {}
    /\ pc \in {"checkpoint", "wandb_log"} \/ BatchCompleted =>
          IF SampleDue
             THEN /\ batch_samples = {train_idx}
                  /\ train_idx \in previews
             ELSE batch_samples = {}
    /\ pc \in {"checkpoint", "wandb_log"} =>
          (SampleDue <=> <<"samples", train_idx>> \in log)
             /\ (~SampleDue => "samples" \notin DictKeys(log))
    /\ BatchCompleted =>
          (SampleDue <=> <<"samples", train_idx>> \in logged)
             /\ (~SampleDue => "samples" \notin DictKeys(logged))
    /\ BatchCompleted /\ epoch = 0 =>
          /\ Cardinality(previews) = train_idx \div cfg.log_frequency
          /\ n_samples = train_idx \div cfg.log_frequency

C6_Witness ==
    /\ BatchCompleted
    /\ cfg.log_frequency = 2
    /\ train_idx = 2
    /\ previews = {2}
    /\ <<"samples", 2>> \in logged

\* C7: train_step draws one timestep per example of the batch, each in
\* [0, T-1) for a schedule of length T >= 2.
C7_TimestepsInRange ==
    n_train_steps > 0 /\ locals # NoLocals =>
        /\ Len(locals.timesteps) =
              BatchLen(cfg.dataset_len, cfg.batch_size, train_idx)
        /\ \A i \in 1..Len(locals.timesteps) :
              /\ locals.timesteps[i] >= 0
              /\ locals.timesteps[i] < cfg.betas_len - 1

C7_Witness ==
    /\ AfterTrainStep
    /\ cfg.betas_len = 3
    /\ Len(locals.timesteps) = 2
    /\ locals.timesteps[1] = 0
    /\ locals.timesteps[2] = cfg.betas_len - 2

\* C8: an empty dataset ends the run with "Dataset is empty" before the data
\* loader and the optimizer exist; nothing is trained, sampled or written.
C8_EmptyDatasetFailsFast ==
    /\ cfg.dataset_len = 0 =>
          /\ pc \in {"main", "crashed"}
          /\ pc = "crashed" => err = "Dataset is empty"
          /\ loader_len = 0
          /\ optimizer = "none"
          /\ n_train_steps = 0
          /\ n_backward = 0
          /\ n_optimize = 0
          /\ n_samples = 0
          /\ saves = <<>>
          /\ previews = {}
    /\ err = "Dataset is empty" => cfg.dataset_len = 0

C8_Witness == cfg.dataset_len = 0 /\ pc = "crashed"

\* C9: with C image channels and M output channels the split gives two
\* C-channel tensors when M = 2C, and for every M # 2C an error is raised
\* before any backward pass or optimizer step.
C9_SplitOrConfigError ==
    /\ AfterTrainStep /\ cfg.out_channels = 2 * cfg.in_channels =>
          locals.chunks = <<cfg.in_channels, cfg.in_channels>>
    /\ cfg.out_channels # 2 * cfg.in_channels =>
          /\ n_backward = 0
          /\ n_optimize = 0
          /\ n_train_steps > 0 => pc = "crashed"

\* C10: once the loss computation, the backward pass or the optimizer step has
\* raised, nothing more happens: no later batch, no further epoch, no sample,
\* no log, no checkpoint (scheduled or final), and no file changes.
LoopSavesBefore(idx) == IF idx <= 0 THEN 0 ELSE (idx - 1) \div CheckpointInterval

C10_FailedState ==
    StepFailed =>
        /\ batch_samples = {}
        /\ batch_logs = 0
        /\ n_train_steps = epoch * loader_len + train_idx + 1
        /\ n_logs = n_train_steps - 1
        /\ SiteCount("final") = epoch
        /\ SiteCount("loop") =
              epoch * ((loader_len - 1) \div CheckpointInterval)
                 + LoopSavesBefore(train_idx)

\* C10: a failed step leaves the state C10_FailedState describes and the run
\* takes no further step.
C10_FailureIsFatal ==
    /\ []C10_FailedState
    /\ [][pc # "crashed"]_vars

C10_Witness ==
    /\ StepFailed
    /\ err = "optimize"
    /\ epoch = 1
    /\ train_idx = 1
    /\ SiteCount("final") = 1

====
